---- MODULE Spec2Model ----
(***************************************************************************)
(* Streaming conversation session manager of the Become-AI browser client: *)
(* ChatManager (static/js/modules/chat.js) driven by ApiService (the api   *)
(* module, static/js/app.js lines 400-721) over one EventSource per        *)
(* question.                                                               *)
(*                                                                         *)
(* One action is one browser task: the handler that the event loop runs,   *)
(* together with the promise continuations (microtasks) it makes runnable, *)
(* which the event loop drains before the next task.                       *)
(*                                                                         *)
(* Text is a sequence of atoms.  User text and tokens are sequences of     *)
(* one-character atoms; a fixed message of the program is one atom.        *)
(* Message ids (Utils.generateId, random base-36 strings) are modelled as  *)
(* fresh numbers.                                                          *)
(***************************************************************************)
EXTENDS Integers, Sequences, FiniteSets, TLC

VARIABLES
    messages,                  \* ChatManager.messages
    isTyping,                  \* ChatManager.isTyping
    currentStreamingMessage,   \* id of ChatManager.currentStreamingMessage, 0 for null
    streamingObject,           \* the object currentStreamingMessage refers to, once it is no element of messages
    persisted,                 \* messages stored under CONFIG.STORAGE_KEYS.CHAT_HISTORY
    hasItem,                   \* the store holds an item under CONFIG.STORAGE_KEYS.CHAT_HISTORY
    nextId,                    \* next fresh message id
    abortController,           \* ApiService.abortController: "null", "stream"
    isConnected,               \* ApiService.isConnected
    es,                        \* latest EventSource: "none", "connecting", "open", "closed"
    esCount,                   \* number of EventSource objects constructed so far
    hasStarted,                \* streamQuery closure variable of the latest stream
    assistantMessage,          \* streamQuery closure variable of the latest stream
    promise,                   \* latest stream's promise: "none", "pending", "resolved", "rejected"
    response,                  \* value or error the promise was settled with
    awaiting,                  \* a sendMessage call is suspended on the latest stream's promise
    fed,                       \* history: token fields of the frames delivered on the latest stream
    deletes,                   \* history: successful deleteMessage calls so far
    sends,                     \* history: calls of sendMessage or streamQuery by the page so far
    tokenFrames,               \* history: frames with a token field delivered so far
    sessionBase,               \* history: last id allocated when the latest stream was opened
    streamCreated,             \* history: ids of the messages handleApiMessage created since then
    unclosed,                  \* history: EventSource objects constructed and not closed
    imports,                   \* history: calls of importChat so far
    job,                       \* ApiService's job call in flight: "none", "scrape", "status" (awaiting
                               \* fetch), "scrape:body", "status:body" (awaiting response.json())
    health,                    \* calls of ApiService.healthCheck in flight
    storageFails,              \* localStorage.setItem throws (store unavailable, quota exceeded)
    widget                     \* the embed script's variables and the elements it created

vars == << messages, isTyping, currentStreamingMessage, streamingObject, persisted,
           hasItem, nextId, abortController, isConnected, es, esCount, hasStarted,
           assistantMessage, promise, response, awaiting, fed, deletes, sends, tokenFrames,
           sessionBase, streamCreated, unclosed, imports, job, health, storageFails,
           widget >>

\* ------------------------------------------------------------------ bounds

MaxIds == 6            \* messages created in one run
MaxFrames == 2         \* frames with a token field delivered in one run
MaxStreams == 2        \* EventSource objects constructed in one run
MaxDeletes == 1        \* messages deleted in one run
MaxSends == 3          \* calls of sendMessage, streamQuery, a job call or healthCheck by the page in one run
MaxImports == 1        \* calls of importChat in one run
MaxLog == 103          \* messages created in one run of a long conversation

\* --------------------------------------------------------------- constants

RETAIN == 100          \* saveChatHistory keeps messages.slice(-100)

EVENTS == [ MESSAGE_SENT      |-> "message:sent",
            MESSAGE_RECEIVED  |-> "message:received",
            TYPING_START      |-> "typing:start",
            TYPING_STOP       |-> "typing:stop",
            CONNECTION_STATUS |-> "connection:status",
            ERROR             |-> "error" ]

ERROR_MESSAGES == [ NETWORK_ERROR |-> << "Network error. Please check your connection." >>,
                    API_ERROR     |-> << "API error. Please try again." >>,
                    INVALID_URL   |-> << "Please enter a valid URL." >>,
                    EMPTY_MESSAGE |-> << "Please enter a message." >> ]

MSG_EMPTY == << "Message cannot be empty" >>
MSG_BUSY == << "Please wait for the current response to complete" >>
MSG_CANCELLED == << "Request cancelled" >>

\* ------------------------------------------------------------------ inputs

Texts == { << >>, << " " >>, << " ", "q", " " >> }

Tokens == { << >>, << "a" >>, << "b" >> }

Chunks == { "c1" }

\* A payload of the stream: "json" frames carry an optional token and optional
\* chunks ("absent" when the field is missing); "malformed" is not JSON.
NoToken == << "absent" >>

Frames == { [kind |-> "malformed", token |-> NoToken, chunks |-> "absent"] }
          \cup { [kind |-> "json", token |-> t, chunks |-> "absent"] : t \in Tokens }
          \cup { [kind |-> "json", token |-> NoToken, chunks |-> c] : c \in Chunks }
          \cup { [kind |-> "json", token |-> << "a" >>, chunks |-> c] : c \in Chunks }

\* A URL string, by the parts the URL parser looks at: scheme ":" "//" host,
\* or host alone when the scheme is "" (a relative reference).
Urls == { [scheme |-> "https", host |-> "example.com"],
          [scheme |-> "HTTP",  host |-> "example.com"],
          [scheme |-> "ftp",   host |-> "example.com"],
          [scheme |-> "",      host |-> "example.com"],
          [scheme |-> "https", host |-> ""] }

\* ------------------------------------------------------------- pure helpers

IsSpace(c) == c = " "

RECURSIVE TrimStart(_)
TrimStart(t) == IF t # << >> /\ IsSpace(Head(t)) THEN TrimStart(Tail(t)) ELSE t

RECURSIVE TrimEnd(_)
TrimEnd(t) == IF t # << >> /\ IsSpace(t[Len(t)]) THEN TrimEnd(SubSeq(t, 1, Len(t) - 1)) ELSE t

\* String.prototype.trim
Trim(t) == TrimEnd(TrimStart(t))

\* the URL parser lower-cases the scheme
LowerScheme(sch) == IF sch = "HTTP" THEN "http" ELSE IF sch = "HTTPS" THEN "https" ELSE sch

\* new URL(string): fails on a relative reference and on http(s) with no host
ParseUrl(u) == IF u.scheme = "" THEN [ok |-> FALSE, protocol |-> ""]
               ELSE IF LowerScheme(u.scheme) \in {"http", "https"} /\ u.host = ""
                    THEN [ok |-> FALSE, protocol |-> ""]
                    ELSE [ok |-> TRUE, protocol |-> LowerScheme(u.scheme)]

\* Utils.isValidUrl
isValidUrl(u) == LET p == ParseUrl(u) IN p.ok /\ p.protocol \in {"http", "https"}

RECURSIVE Concat(_)
Concat(ts) == IF ts = << >> THEN << >> ELSE Head(ts) \o Concat(Tail(ts))

\* a slice that keeps the oldest n elements
SliceLast_KeepsFirst(q, n) == IF Len(q) <= n THEN q ELSE SubSeq(q, 1, n)

\* Array.prototype.slice(-n)
SliceLast(q, n) == IF Len(q) <= n THEN q ELSE SubSeq(q, Len(q) - n + 1, Len(q))

\* Array.prototype.findIndex(m => m.id === id), 0 for -1
FindIndex(q, id) == IF \E i \in 1..Len(q) : q[i].id = id
                    THEN CHOOSE i \in 1..Len(q) :
                            q[i].id = id /\ \A j \in 1..(i - 1) : q[j].id # id
                    ELSE 0

\* Object.assign(m, u) on the fields a message has
Assign(m, u) == [k \in DOMAIN m |-> IF k \in DOMAIN u THEN u[k] ELSE m[k]]

NoResponse == [content |-> << >>, completed |-> FALSE, error |-> << >>]

\* ------------------------------------------------ the state as one record

\* The handlers below are functions from state to state, so that a task is the
\* composition of the calls its code makes.  Four fields live for one task only:
\* "microtasks" is the queue of promise continuations the task made runnable,
\* "ret" the result it reports, "cmEvents" and "apiEvents" the events that
\* ChatManager and ApiService dispatched during it.
Cur == [ messages |-> messages, isTyping |-> isTyping,
         currentStreamingMessage |-> currentStreamingMessage,
         streamingObject |-> streamingObject,
         persisted |-> persisted, hasItem |-> hasItem, nextId |-> nextId,
         abortController |-> abortController, isConnected |-> isConnected,
         es |-> es, esCount |-> esCount, hasStarted |-> hasStarted,
         assistantMessage |-> assistantMessage, promise |-> promise,
         response |-> response, awaiting |-> awaiting, fed |-> fed,
         deletes |-> deletes, sends |-> sends, tokenFrames |-> tokenFrames,
         sessionBase |-> sessionBase, streamCreated |-> streamCreated,
         unclosed |-> unclosed, imports |-> imports,
         job |-> job, health |-> health, storageFails |-> storageFails,
         cmEvents |-> << >>, apiEvents |-> << >>,
         microtasks |-> << >>, ret |-> "" ]

\* ------------------------------------------------------------- ChatManager

\* ChatManager.emit
emitChat(s, eventName) == [s EXCEPT !.cmEvents = Append(@, eventName)]

\* a failing save that puts the log back to what the store holds
saveChatHistory_RevertsOnFailure(s) ==
    IF s.storageFails THEN [s EXCEPT !.messages = s.persisted]
    ELSE [s EXCEPT !.persisted = SliceLast(s.messages, RETAIN), !.hasItem = TRUE]

\* ChatManager.saveChatHistory with Utils.storage.set: persisted is the value
\* handed to the store, which keeps its JSON text
\* Utils.storage.set catches what localStorage.setItem throws
saveChatHistory(s) ==
    IF s.storageFails THEN s
    ELSE [s EXCEPT !.persisted = SliceLast(s.messages, RETAIN), !.hasItem = TRUE]

\* setTyping that tells nobody when typing stops
setTyping_SilentStop(s, v) ==
    IF s.isTyping # v
    THEN IF v THEN emitChat([s EXCEPT !.isTyping = v], EVENTS.TYPING_START)
         ELSE [s EXCEPT !.isTyping = v]
    ELSE s

\* setTyping without its change check
setTyping_Unguarded(s, v) ==
    emitChat([s EXCEPT !.isTyping = v],
             IF v THEN EVENTS.TYPING_START ELSE EVENTS.TYPING_STOP)

\* ChatManager.setTyping
setTyping(s, v) ==
    IF s.isTyping # v
    THEN emitChat([s EXCEPT !.isTyping = v],
                  IF v THEN EVENTS.TYPING_START ELSE EVENTS.TYPING_STOP)
    ELSE s

\* new Date(): the clock ticks once for every message created
Now(s) == [valid |-> TRUE, t |-> s.nextId]

\* a Date that holds no instant (Invalid Date)
InvalidDate == [valid |-> FALSE, t |-> 0]

\* no timestamp among the options of addMessage
NoDate == [valid |-> FALSE, t |-> -1]

\* addMessage that puts the new message at the head of the log
addMessage_Unshift(s, role, content, options) ==
    LET message == [ id          |-> s.nextId,
                     role        |-> role,
                     content     |-> content,
                     timestamp   |-> IF options.timestamp = NoDate
                                     THEN Now(s) ELSE options.timestamp,
                     isStreaming |-> options.isStreaming,
                     metadata    |-> options.metadata,
                     type        |-> options.type,
                     completed   |-> "undefined" ]
        pushed == [s EXCEPT !.messages = << message >> \o @, !.nextId = @ + 1]
    IN saveChatHistory(emitChat(pushed, EVENTS.MESSAGE_SENT))

\* ChatManager.addMessage; the new message's id is s.nextId
addMessage(s, role, content, options) ==
    LET message == [ id          |-> s.nextId,
                     role        |-> role,
                     content     |-> content,
                     timestamp   |-> IF options.timestamp = NoDate
                                     THEN Now(s) ELSE options.timestamp,
                     isStreaming |-> options.isStreaming,
                     metadata    |-> options.metadata,
                     type        |-> options.type,
                     completed   |-> "undefined" ]
        pushed == [s EXCEPT !.messages = Append(@, message), !.nextId = @ + 1]
    IN saveChatHistory(emitChat(pushed, EVENTS.MESSAGE_SENT))

\* the values a message's metadata has besides an event's detail object: null,
\* undefined, and, in JSON text, no property at all
NullValue == [kind |-> "null"]
UndefinedValue == [kind |-> "undefined"]
AbsentValue == [kind |-> "absent"]

\* the options addMessage fills in when the caller gives none
DefaultOptions == [isStreaming |-> FALSE, metadata |-> NullValue, type |-> "message",
                   timestamp |-> NoDate]

\* updateMessage that leaves the store as it is
updateMessage_NoSave(s, messageId, updates) ==
    LET messageIndex == FindIndex(s.messages, messageId) IN
    IF messageIndex = 0 THEN s
    ELSE emitChat([s EXCEPT !.messages[messageIndex] = Assign(@, updates)],
                  EVENTS.MESSAGE_RECEIVED)

\* ChatManager.updateMessage
updateMessage(s, messageId, updates) ==
    LET messageIndex == FindIndex(s.messages, messageId) IN
    IF messageIndex = 0 THEN s
    ELSE saveChatHistory(emitChat(
            [s EXCEPT !.messages[messageIndex] = Assign(@, updates)],
            EVENTS.MESSAGE_RECEIVED))

\* ChatManager.handleError
handleError(s, errorMessage) ==
    setTyping(addMessage(s, "system", << "Error: " >> \o errorMessage,
                         [DefaultOptions EXCEPT !.type = "error"]),
              FALSE)

\* the object currentStreamingMessage refers to: streamingObject is InLog
\* while the reference is null or to an element of messages, and holds the
\* object's content once the object is no element of messages (it was spliced
\* out of the array, or the array was replaced by a reloaded one)
InLog == [detached |-> FALSE, content |-> << >>]

\* content of the object currentStreamingMessage refers to
ContentOf(s, id) ==
    IF s.streamingObject.detached THEN s.streamingObject.content
    ELSE LET i == FindIndex(s.messages, id) IN
         IF i = 0 THEN << >> ELSE s.messages[i].content

\* this.currentStreamingMessage.content = content, on the object itself
SetContent(s, content) ==
    IF s.streamingObject.detached
    THEN [s EXCEPT !.streamingObject.content = content]
    ELSE s

\* this.currentStreamingMessage = the message addMessage has just returned
StartStreaming(s, a) ==
    [a EXCEPT !.currentStreamingMessage = s.nextId, !.streamingObject = InLog,
              !.streamCreated = @ \cup {s.nextId}]

\* this.currentStreamingMessage = null
NoStreaming(s) == [s EXCEPT !.currentStreamingMessage = 0, !.streamingObject = InLog]

\* handleApiMessage that attaches metadata only to a message that has none
handleApiMessage_MetadataOnce(s, data) ==
    IF data.type = "start"
    THEN StartStreaming(s, addMessage(s, "assistant", data.content,
                                      [DefaultOptions EXCEPT !.isStreaming = TRUE]))
    ELSE IF data.type = "token" /\ s.currentStreamingMessage # 0
    THEN LET content == ContentOf(s, s.currentStreamingMessage) \o data.content IN
         updateMessage(SetContent(s, content), s.currentStreamingMessage,
                       [content |-> content])
    ELSE IF data.type = "metadata" /\ s.currentStreamingMessage # 0
            /\ \E i \in 1..Len(s.messages) :
                 /\ s.messages[i].id = s.currentStreamingMessage
                 /\ s.messages[i].metadata = NullValue
    THEN updateMessage(s, s.currentStreamingMessage, [metadata |-> data])
    ELSE s

\* handleApiMessage that shows the latest token instead of appending it
handleApiMessage_Replaces(s, data) ==
    IF data.type = "start"
    THEN StartStreaming(s, addMessage(s, "assistant", data.content,
                                      [DefaultOptions EXCEPT !.isStreaming = TRUE]))
    ELSE IF data.type = "token" /\ s.currentStreamingMessage # 0
    THEN updateMessage(SetContent(s, data.content), s.currentStreamingMessage,
                       [content |-> data.content])
    ELSE IF data.type = "metadata" /\ s.currentStreamingMessage # 0
    THEN updateMessage(s, s.currentStreamingMessage, [metadata |-> data])
    ELSE s

\* ChatManager.handleApiMessage
handleApiMessage(s, data) ==
    IF data.type = "start"
    THEN StartStreaming(s, addMessage(s, "assistant", data.content,
                                      [DefaultOptions EXCEPT !.isStreaming = TRUE]))
    ELSE IF data.type = "token" /\ s.currentStreamingMessage # 0
    THEN LET content == ContentOf(s, s.currentStreamingMessage) \o data.content IN
         updateMessage(SetContent(s, content), s.currentStreamingMessage,
                       [content |-> content])
    ELSE IF data.type = "metadata" /\ s.currentStreamingMessage # 0
    THEN updateMessage(s, s.currentStreamingMessage, [metadata |-> data])
    ELSE s

\* ChatManager.setupApiListeners: what ChatManager does on an ApiService event
apiListeners(s, eventName, detail) ==
    IF eventName = EVENTS.MESSAGE_RECEIVED THEN handleApiMessage(s, detail)
    ELSE IF eventName = EVENTS.TYPING_START THEN setTyping(s, TRUE)
    ELSE IF eventName = EVENTS.TYPING_STOP THEN setTyping(s, FALSE)
    ELSE IF eventName = EVENTS.ERROR THEN handleError(s, detail.message)
    ELSE s

\* the finalize block without the reset of the reference
sendMessageResolved_KeepsReference(s, completed) ==
    IF s.currentStreamingMessage # 0
    THEN updateMessage(s, s.currentStreamingMessage,
                [isStreaming |-> FALSE,
                 completed |-> IF completed THEN "true" ELSE "false"])
    ELSE s

\* the part of ChatManager.sendMessage after "await", when the promise resolved
sendMessageResolved(s, completed) ==
    IF s.currentStreamingMessage # 0
    THEN NoStreaming(updateMessage(s, s.currentStreamingMessage,
                [isStreaming |-> FALSE,
                 completed |-> IF completed THEN "true" ELSE "false"]))
    ELSE s

\* the two catch blocks of ChatManager.sendMessage, when the promise rejected
sendMessageRejected(s, errorMessage) ==
    handleError(NoStreaming(setTyping(s, FALSE)), errorMessage)

\* the event loop draining the continuations a task made runnable
RECURSIVE drain(_)
drain(s) ==
    IF s.microtasks = << >> THEN s
    ELSE LET k == Head(s.microtasks)
             r == [s EXCEPT !.microtasks = Tail(@)]
         IN drain(IF k.kind = "resolved"
                  THEN sendMessageResolved(r, k.completed)
                  ELSE sendMessageRejected(r, k.error))

\* -------------------------------------------------------------- ApiService

\* ApiService.emit: dispatches synchronously to the listeners ChatManager attached
emitApi(s, eventName, detail) ==
    apiListeners([s EXCEPT !.apiEvents = Append(@, eventName)], eventName, detail)

\* resolve(value) of the promise streamQuery returns; a settled promise ignores it
resolve(s, value) ==
    IF s.promise = "pending"
    THEN [s EXCEPT !.promise = "resolved",
                   !.response = [NoResponse EXCEPT !.content = value.content,
                                                   !.completed = value.completed],
                   !.awaiting = FALSE,
                   !.microtasks = IF s.awaiting
                                  THEN Append(@, [kind |-> "resolved",
                                                  completed |-> value.completed,
                                                  error |-> << >>])
                                  ELSE @]
    ELSE s

\* reject(error) of the promise streamQuery returns; a settled promise ignores it
reject(s, errorMessage) ==
    IF s.promise = "pending"
    THEN [s EXCEPT !.promise = "rejected",
                   !.response = [NoResponse EXCEPT !.error = errorMessage],
                   !.awaiting = FALSE,
                   !.microtasks = IF s.awaiting
                                  THEN Append(@, [kind |-> "rejected",
                                                  completed |-> FALSE,
                                                  error |-> errorMessage])
                                  ELSE @]
    ELSE s

\* close that leaves the connection as it is
close_Noop(s) == s

\* EventSource.close
close(s) == [s EXCEPT !.es = IF @ = "none" THEN @ ELSE "closed",
                      !.unclosed = IF s.es \in {"connecting", "open"} THEN @ - 1 ELSE @]

\* ApiService.handleNetworkError
handleNetworkError(s) ==
    emitApi(emitApi([s EXCEPT !.isConnected = FALSE],
                    EVENTS.CONNECTION_STATUS, [connected |-> FALSE]),
            EVENTS.ERROR, [message |-> ERROR_MESSAGES.NETWORK_ERROR])

\* the 'abort' listener streamQuery attaches to its controller's signal
abortListener(s) ==
    reject(emitApi(close(s), EVENTS.TYPING_STOP, [type |-> "none"]), MSG_CANCELLED)

\* AbortController.abort on the controller in this.abortController: the
\* listener of the stream runs, or the fetch or the body read of a job call in
\* flight rejects with an AbortError, which the call rethrows without an event
abort(s) ==
    IF s.abortController = "stream" THEN abortListener(s)
    ELSE IF s.abortController = "job" THEN [s EXCEPT !.job = "none"]
    ELSE s

\* createAbortController that replaces the controller without aborting it
createAbortController_NoAbort(s) == [s EXCEPT !.abortController = "fresh"]

\* ApiService.createAbortController; "fresh" is a controller with no listener yet
createAbortController(s) ==
    [(IF s.abortController # "null" THEN abort(s) ELSE s)
        EXCEPT !.abortController = "fresh"]

\* the catch block of ApiService.streamQuery: emit the error, reject the returned promise
streamQueryThrow(s, errorMessage, awaited, result) ==
    LET e == emitApi(s, EVENTS.ERROR, [message |-> errorMessage]) IN
    [e EXCEPT !.ret = result,
              !.microtasks = IF awaited
                             THEN Append(@, [kind |-> "rejected", completed |-> FALSE,
                                             error |-> errorMessage])
                             ELSE @]

\* streamQuery that creates its abort controller before it validates its input
streamQuery_ControllerFirst(s, question, siteUrl, awaited) ==
    LET c == createAbortController(s) IN
    IF Trim(question) = << >>
    THEN streamQueryThrow(c, ERROR_MESSAGES.EMPTY_MESSAGE, awaited, "emptyQuestion")
    ELSE IF ~isValidUrl(siteUrl)
    THEN streamQueryThrow(c, ERROR_MESSAGES.INVALID_URL, awaited, "invalidUrl")
    ELSE emitApi([c EXCEPT !.es = "connecting",
                           !.esCount = @ + 1,
                           !.unclosed = @ + 1,
                           !.isConnected = TRUE,
                           !.hasStarted = FALSE,
                           !.assistantMessage = << >>,
                           !.promise = "pending",
                           !.response = NoResponse,
                           !.awaiting = awaited,
                           !.abortController = "stream",
                           !.fed = << >>,
                           !.sessionBase = c.nextId - 1,
                           !.streamCreated = {},
                           !.ret = "opened"],
                 EVENTS.CONNECTION_STATUS, [connected |-> TRUE])

\* ApiService.streamQuery up to the return of its promise; awaited tells whether
\* the caller is ChatManager.sendMessage, which awaits the promise
streamQuery(s, question, siteUrl, awaited) ==
    IF Trim(question) = << >>
    THEN streamQueryThrow(s, ERROR_MESSAGES.EMPTY_MESSAGE, awaited, "emptyQuestion")
    ELSE IF ~isValidUrl(siteUrl)
    THEN streamQueryThrow(s, ERROR_MESSAGES.INVALID_URL, awaited, "invalidUrl")
    ELSE LET c == createAbortController(s)
             n == [c EXCEPT !.es = "connecting",
                            !.esCount = @ + 1,
                            !.unclosed = @ + 1,
                            !.isConnected = TRUE,
                            !.hasStarted = FALSE,
                            !.assistantMessage = << >>,
                            !.promise = "pending",
                            !.response = NoResponse,
                            !.awaiting = awaited,
                            !.abortController = "stream",
                            !.fed = << >>,
                            !.sessionBase = c.nextId - 1,
                            !.streamCreated = {},
                            !.ret = "opened"]
         IN emitApi(n, EVENTS.CONNECTION_STATUS, [connected |-> TRUE])

\* eventSource.onopen
onopen(s) == emitApi([s EXCEPT !.es = "open", !.ret = "ok"],
                     EVENTS.TYPING_START, [type |-> "none"])

DONE == [kind |-> "done", token |-> NoToken, chunks |-> "absent"]

\* onmessage whose JSON.parse failure ends the stream
onmessage_ParseErrorCloses(s, data) ==
    IF data.kind = "malformed"
    THEN reject(close([s EXCEPT !.ret = "malformed"]), ERROR_MESSAGES.API_ERROR)
    ELSE s

\* eventSource.onmessage
onmessage(s, data) ==
    IF data.kind = "done"
    THEN resolve(emitApi(close([s EXCEPT !.ret = "done"]),
                         EVENTS.TYPING_STOP, [type |-> "none"]),
                 [content |-> s.assistantMessage, completed |-> TRUE])
    ELSE IF data.kind = "malformed"
    THEN [s EXCEPT !.ret = "malformed"]
    ELSE LET h == [s EXCEPT !.ret = "frame",
                            !.fed = IF data.token # NoToken
                                    THEN Append(@, data.token) ELSE @]
             truthy == data.token # NoToken /\ data.token # << >>
             t == IF ~truthy THEN h
                  ELSE [(IF ~h.hasStarted
                         THEN emitApi([h EXCEPT !.hasStarted = TRUE],
                                      EVENTS.MESSAGE_RECEIVED,
                                      [type |-> "start", content |-> data.token,
                                       isStreaming |-> TRUE])
                         ELSE emitApi(h, EVENTS.MESSAGE_RECEIVED,
                                      [type |-> "token", content |-> data.token,
                                       isStreaming |-> TRUE]))
                          EXCEPT !.assistantMessage = @ \o data.token]
         IN IF data.chunks # "absent"
            THEN emitApi(t, EVENTS.MESSAGE_RECEIVED,
                         [type |-> "metadata", chunks |-> data.chunks,
                          isStreaming |-> TRUE])
            ELSE t

\* eventSource.onerror
onerror(s) ==
    LET c == emitApi(close(s), EVENTS.TYPING_STOP, [type |-> "none"]) IN
    IF ~c.hasStarted
    THEN reject([handleNetworkError(c) EXCEPT !.ret = "failed"],
                ERROR_MESSAGES.NETWORK_ERROR)
    ELSE resolve([c EXCEPT !.ret = "interrupted"],
                 [content |-> c.assistantMessage, completed |-> FALSE])

\* ApiService.handleApiError
handleApiError(s, message) ==
    emitApi(s, EVENTS.ERROR, [message |-> message \o << " (500)" >>])

\* ApiService.startScraping up to its await of fetch
startScraping(s, baseUrl) ==
    IF ~isValidUrl(baseUrl) THEN [s EXCEPT !.ret = "invalidUrl"]
    ELSE [createAbortController(s) EXCEPT !.abortController = "job",
                                         !.job = "scrape",
                                         !.ret = "pending"]

\* ApiService.checkScrapingStatus up to its await of fetch
checkScrapingStatus(s) ==
    [createAbortController(s) EXCEPT !.abortController = "job",
                                    !.job = "status",
                                    !.ret = "pending"]

\* what fetch can settle with: a 2xx response, another response, a TypeError
\* whose message has the word 'fetch' (Chrome, Firefox), one whose message
\* has not (Safari)
FetchOutcomes == {"ok", "notOk", "fetchTypeError", "otherTypeError"}

\* what response.json() can settle with: the parsed body, a SyntaxError for a
\* body that is not JSON, a TypeError of the network whose message has the
\* word 'fetch', one whose message has not
BodyOutcomes == {"ok", "syntaxError", "fetchTypeError", "otherTypeError"}

\* startScraping or checkScrapingStatus from the settling of fetch to the
\* await of response.json(), or to the end of the call
jobSettled(s, outcome) ==
    IF outcome = "ok"
    THEN [s EXCEPT !.job = IF @ = "scrape" THEN "scrape:body" ELSE "status:body",
                   !.ret = "pending"]
    ELSE LET d == [s EXCEPT !.job = "none", !.ret = outcome] IN
         IF outcome = "notOk"
         THEN handleApiError(d, IF s.job = "scrape"
                                THEN << "Failed to start scraping" >>
                                ELSE << "Failed to check scraping status" >>)
         ELSE IF outcome = "fetchTypeError" THEN handleNetworkError(d)
         ELSE d

\* the rest of startScraping or checkScrapingStatus once response.json() has
\* settled
bodySettled(s, outcome) ==
    LET d == [s EXCEPT !.job = "none", !.ret = outcome] IN
    IF outcome = "fetchTypeError" THEN handleNetworkError(d) ELSE d

\* ApiService.healthCheck up to its await of fetch, on a controller of its own
healthCheck(s) == [s EXCEPT !.health = @ + 1, !.ret = "pending"]

\* the rest of healthCheck once fetch has settled: with a 2xx response ("ok"),
\* another response ("notOk"), or a rejection ("error": a network failure, or
\* the abort after five seconds)
healthSettled(s, outcome) ==
    emitApi([s EXCEPT !.health = @ - 1,
                      !.isConnected = (outcome = "ok"),
                      !.ret = IF outcome = "ok" THEN "true" ELSE "false"],
            EVENTS.CONNECTION_STATUS, [connected |-> (outcome = "ok")])

\* ApiService.cancel
apiServiceCancel(s) ==
    IF s.abortController # "null"
    THEN [abort(s) EXCEPT !.abortController = "null"]
    ELSE s

\* ------------------------------------------------- ChatManager operations

\* ChatManager.sendMessage up to its await (or to its throw before it)
sendMessage(s, content, siteUrl) ==
    IF Trim(content) = << >>
    THEN [handleError(s, MSG_EMPTY) EXCEPT !.ret = "empty"]
    ELSE IF s.isTyping
    THEN [handleError(s, MSG_BUSY) EXCEPT !.ret = "busy"]
    ELSE streamQuery(addMessage(s, "user", Trim(content), DefaultOptions),
                     Trim(content), siteUrl, TRUE)

\* cancel that also tells the user, through a notice in the log
cancel_AppendsNotice(s) ==
    NoStreaming(addMessage(setTyping(apiServiceCancel(s), FALSE), "system",
                           MSG_CANCELLED, DefaultOptions))

\* ChatManager.cancel
cancel(s) ==
    NoStreaming(setTyping(apiServiceCancel(s), FALSE))

\* BecomeAIApp.cancelCurrentOperation (the Escape key)
cancelCurrentOperation(s) ==
    IF s.isTyping
    THEN [cancel(apiServiceCancel(s)) EXCEPT !.ret = "cancelled"]
    ELSE [s EXCEPT !.ret = "ignored"]

\* BecomeAIApp.cleanup, the listener of beforeunload: the requests are
\* cancelled and the log is saved; the components it destroys hold no state
\* of the conversation
cleanup(s) == saveChatHistory(apiServiceCancel(s))

\* ChatManager.clearMessages
clearMessages(s) ==
    emitChat(saveChatHistory(setTyping(
        [NoStreaming(s) EXCEPT !.messages = << >>, !.ret = "ok"],
        FALSE)), "messages:cleared")

\* splice(index) without a delete count: removes everything from index on
Splice_ToEnd(q, index) == SubSeq(q, 1, index - 1)

\* Array.prototype.splice(index, 1)
Splice(q, index) == SubSeq(q, 1, index - 1) \o SubSeq(q, index + 1, Len(q))

\* ChatManager.deleteMessage; currentStreamingMessage keeps its reference to
\* a message that is spliced out
deleteMessage(s, id) ==
    LET index == FindIndex(s.messages, id) IN
    IF index = 0 THEN [s EXCEPT !.ret = "false"]
    ELSE emitChat(saveChatHistory(
            [s EXCEPT !.messages = Splice(@, index), !.deletes = @ + 1,
                      !.streamingObject =
                          IF id = s.currentStreamingMessage /\ ~@.detached
                          THEN [detached |-> TRUE, content |-> s.messages[index].content]
                          ELSE @,
                      !.ret = "true"]),
            "message:deleted")

\* -------------------------------------------------------- export and import

\* Date.prototype.toJSON: the ISO-8601 string of the instant, null for a Date
\* that holds none
DateToJson(d) == IF d.valid THEN [json |-> "iso", t |-> d.t] ELSE [json |-> "null", t |-> 0]

\* JSON.stringify of one message: a property whose value is undefined is left out
ToJson(m) ==
    [ kind |-> "message", id |-> m.id, role |-> m.role, content |-> m.content,
      isStreaming |-> m.isStreaming,
      metadata |-> IF m.metadata = UndefinedValue THEN AbsentValue ELSE m.metadata,
      type |-> IF m.type = "undefined" THEN "absent" ELSE m.type,
      completed |-> IF m.completed = "undefined" THEN "absent" ELSE m.completed,
      timestamp |-> DateToJson(m.timestamp) ]

\* ChatManager.exportChat('json'): the document, by its messages
exportChat(s) ==
    [ kind |-> "array", messages |-> [i \in 1..Len(s.messages) |-> ToJson(s.messages[i])] ]

\* the format arguments: the two the code names and one it does not
Formats == {"json", "text", "xml"}

\* Utils.formatTime: toLocaleTimeString of the instant, 'Invalid Date' for a
\* Date that holds none
formatTime(d) ==
    IF d.valid THEN [text |-> "time", t |-> d.t] ELSE [text |-> "Invalid Date", t |-> 0]

\* an export that also marks every message as finished
exportChatCall_Finalizes(s, format) ==
    [s EXCEPT !.messages = [i \in 1..Len(@) |-> [@[i] EXCEPT !.isStreaming = FALSE]],
              !.ret = exportChat(s)]

\* ChatManager.exportChat(format): the JSON text, the transcript lines, or the
\* data object itself
exportChatCall(s, format) ==
    [s EXCEPT !.ret =
        IF format = "json" THEN exportChat(s)
        ELSE IF format = "text"
        THEN [ kind |-> "text",
               messages |-> [i \in 1..Len(s.messages) |->
                   [ time |-> formatTime(s.messages[i].timestamp),
                     role |-> s.messages[i].role,
                     content |-> s.messages[i].content ]] ]
        ELSE [ kind |-> "object", messages |-> s.messages ]]

\* a message object as another program could have written it
ForeignMessage ==
    [ kind |-> "message", id |-> 0, role |-> "user", content |-> << "h" >>,
      isStreaming |-> FALSE, metadata |-> NullValue, type |-> "message",
      completed |-> "absent", timestamp |-> [json |-> "iso", t |-> 0] ]

\* a message object whose timestamp is a string that is no date
BadDateEntry == [ForeignMessage EXCEPT !.timestamp = [json |-> "garbage", t |-> 0]]

\* the JSON value null in the place of a message
NullEntry == [ForeignMessage EXCEPT !.kind = "null"]

\* a message object with no role
NoRoleEntry == [ForeignMessage EXCEPT !.role = "absent"]

\* documents given to importChat: text that is not JSON, the value null, an
\* object without messages, an object whose messages is not an array, and
\* objects whose messages is an array
Documents ==
    { [kind |-> k, messages |-> << >>] :
        k \in {"malformed", "null", "noMessages", "notArray", "array"} }
    \cup { [kind |-> "array", messages |-> q] :
             q \in { << ForeignMessage >>, << ForeignMessage, NullEntry >>,
                     << NoRoleEntry, ForeignMessage >>, << BadDateEntry >> } }

\* new Date(value) for a value read from JSON: an ISO-8601 string gives its
\* instant, null gives the epoch, anything else no instant
ParseDate(j) ==
    IF j.json = "iso" THEN [valid |-> TRUE, t |-> j.t]
    ELSE IF j.json = "null" THEN [valid |-> TRUE, t |-> 0]
    ELSE InvalidDate

\* message.role && message.content
HasRequiredFields(e) == e.role # "absent" /\ e.role # "" /\ e.content # << >>

\* the options importChat passes to addMessage; addMessage spreads them over
\* its defaults, so that a field the entry lacks ends up undefined
ImportOptions(e) ==
    [ isStreaming |-> FALSE,
      metadata |-> IF e.metadata = AbsentValue THEN UndefinedValue ELSE e.metadata,
      type |-> IF e.type = "absent" THEN "undefined" ELSE e.type,
      timestamp |-> IF e.timestamp.json \in {"absent", "null"} THEN NoDate
                    ELSE ParseDate(e.timestamp) ]

\* loadChatHistory's { ...message, timestamp: new Date(message.timestamp) } on
\* a stored message: a property the text lacks reads as undefined
FromJson(e) ==
    [ id |-> e.id, role |-> e.role, content |-> e.content,
      isStreaming |-> e.isStreaming,
      metadata |-> IF e.metadata = AbsentValue THEN UndefinedValue ELSE e.metadata,
      type |-> IF e.type = "absent" THEN "undefined" ELSE e.type,
      completed |-> IF e.completed = "absent" THEN "undefined" ELSE e.completed,
      timestamp |-> ParseDate(e.timestamp) ]

\* ChatManager.loadChatHistory, on the text the store holds: the stored
\* messages become new objects in a new array, and currentStreamingMessage
\* keeps its reference to the object of the old one
loadChatHistory(s) ==
    IF ~s.hasItem THEN s
    ELSE [s EXCEPT !.messages =
                       [i \in 1..Len(s.persisted) |-> FromJson(ToJson(s.persisted[i]))],
                   !.streamingObject =
                       IF s.currentStreamingMessage # 0 /\ ~@.detached
                       THEN [detached |-> TRUE,
                             content |-> ContentOf(s, s.currentStreamingMessage)]
                       ELSE @]

\* imported.messages.forEach(...) of importChat; reading message.role of null throws
RECURSIVE ImportEach(_, _)
ImportEach(s, entries) ==
    IF entries = << >> THEN [s EXCEPT !.ret = "true"]
    ELSE LET e == Head(entries) IN
         IF e.kind = "null" THEN [s EXCEPT !.ret = "false"]
         ELSE IF HasRequiredFields(e)
         THEN ImportEach(addMessage(s, e.role, e.content, ImportOptions(e)), Tail(entries))
         ELSE ImportEach(s, Tail(entries))

\* ChatManager.importChat
importChat(s, data, merge) ==
    LET c == [s EXCEPT !.imports = @ + 1] IN
    IF data.kind # "array" THEN [c EXCEPT !.ret = "false"]
    ELSE ImportEach(IF merge THEN c ELSE clearMessages(c), data.messages)

\* new ChatManager(): an empty log, no session, then what the store holds
constructor(s) ==
    loadChatHistory([NoStreaming(s) EXCEPT !.messages = << >>, !.isTyping = FALSE])

\* ------------------------------------------------------------ embed widget

\* messages the host page posts to the widget in one run
MaxPosted == 4

WidgetTexts == {"hello", "bye"}

\* the embed script has run: its variables are set, window.finChat exists, and
\* init waits for the page's load event.  urlParses tells whether
\* new URL(WIDGET_URL, window.location.origin) gives a URL on this page: it
\* throws where data-widget-url is no URL ("http://") and where the page's
\* origin is opaque, so that window.location.origin is the string "null"
WidgetLoaded ==
    [ isOpen |-> FALSE, isLoaded |-> FALSE, root |-> FALSE, launcher |-> FALSE,
      loadFired |-> FALSE, ariaExpanded |-> "none", visible |-> FALSE,
      label |-> "none", srcAssigned |-> 0, posted |-> << >>, urlParses |-> TRUE,
      ret |-> "" ]

\* ensureSingleInstance
ensureSingleInstance(w) == ~w.root

\* init: builds the root, the launcher and the hidden iframe, unless the
\* document already has an element with the root's id
init(w) ==
    IF ~ensureSingleInstance(w) THEN [w EXCEPT !.ret = "ok"]
    ELSE [w EXCEPT !.root = TRUE, !.launcher = TRUE, !.ariaExpanded = "false",
                   !.visible = FALSE, !.label = "Open Chat", !.ret = "ok"]

\* toggleChat: launcher.setAttribute throws while launcher is null, and the
\* URL constructor throws on the first opening where the address does not
\* parse, after isOpen and aria-expanded were set
toggleChat(w) ==
    LET f == [w EXCEPT !.isOpen = ~@] IN
    IF ~f.launcher THEN [f EXCEPT !.ret = "TypeError"]
    ELSE LET a == [f EXCEPT !.ariaExpanded = IF f.isOpen THEN "true" ELSE "false"] IN
         IF a.isOpen
         THEN IF ~a.isLoaded /\ ~a.urlParses THEN [a EXCEPT !.ret = "TypeError"]
              ELSE [a EXCEPT !.srcAssigned = IF a.isLoaded THEN @ ELSE @ + 1,
                             !.isLoaded = TRUE,
                             !.visible = TRUE,
                             !.label = "Close Chat",
                             !.ret = "ok"]
         ELSE [a EXCEPT !.visible = FALSE,
                        !.label = "Open Chat",
                        !.ret = "ok"]

\* safePostMessage: the iframe exists once init has built it
safePostMessage(w, message) ==
    IF w.launcher THEN [w EXCEPT !.posted = Append(@, message)] ELSE w

\* window.finChat.open
finChatOpen(w) == IF ~w.isOpen THEN toggleChat(w) ELSE [w EXCEPT !.ret = "ok"]

\* window.finChat.close
finChatClose(w) == IF w.isOpen THEN toggleChat(w) ELSE [w EXCEPT !.ret = "ok"]

\* window.finChat.send
finChatSend(w, text) ==
    LET o == IF ~w.isOpen THEN toggleChat(w) ELSE [w EXCEPT !.ret = "ok"] IN
    IF o.ret = "TypeError" THEN o
    ELSE safePostMessage(o, [type |-> "widget.add_message", value |-> text])

\* window.finChat.setTheme
finChatSetTheme(w, theme) ==
    safePostMessage([w EXCEPT !.ret = "ok"], [type |-> "widget.set_theme", value |-> theme])

\* ----------------------------------------------------------------- actions

\* the page's objects take the values of f; the embed script is another program
Update(f) ==
    /\ job' = f.job
    /\ health' = f.health
    /\ hasItem' = f.hasItem
    /\ streamingObject' = f.streamingObject
    /\ streamCreated' = f.streamCreated
    /\ storageFails' = f.storageFails
    /\ widget' = widget
    /\ messages' = f.messages
    /\ isTyping' = f.isTyping
    /\ currentStreamingMessage' = f.currentStreamingMessage
    /\ persisted' = f.persisted
    /\ nextId' = f.nextId
    /\ abortController' = f.abortController
    /\ isConnected' = f.isConnected
    /\ es' = f.es
    /\ esCount' = f.esCount
    /\ hasStarted' = f.hasStarted
    /\ assistantMessage' = f.assistantMessage
    /\ promise' = f.promise
    /\ response' = f.response
    /\ awaiting' = f.awaiting
    /\ fed' = f.fed
    /\ deletes' = f.deletes
    /\ sends' = f.sends
    /\ tokenFrames' = f.tokenFrames
    /\ sessionBase' = f.sessionBase
    /\ unclosed' = f.unclosed
    /\ imports' = f.imports

\* the state a task leaves, once its continuations have run
Commit(f) ==
    /\ f.nextId <= MaxIds + 1
    /\ f.esCount <= MaxStreams
    /\ f.deletes <= MaxDeletes
    /\ f.sends <= MaxSends
    /\ f.tokenFrames <= MaxFrames
    /\ f.imports <= MaxImports
    /\ Update(f)

\* the page of the chat after construction, on a first visit
InitPage ==
    /\ messages = << >>
    /\ isTyping = FALSE
    /\ currentStreamingMessage = 0
    /\ persisted = << >>
    /\ nextId = 1
    /\ abortController = "null"
    /\ isConnected = TRUE
    /\ es = "none"
    /\ esCount = 0
    /\ hasStarted = FALSE
    /\ assistantMessage = << >>
    /\ promise = "none"
    /\ response = NoResponse
    /\ awaiting = FALSE
    /\ fed = << >>
    /\ deletes = 0
    /\ sends = 0
    /\ tokenFrames = 0
    /\ sessionBase = 0
    /\ unclosed = 0
    /\ imports = 0
    /\ job = "none"
    /\ health = 0
    /\ hasItem = FALSE
    /\ streamingObject = InLog
    /\ streamCreated = {}
    /\ storageFails = FALSE

Init ==
    /\ InitPage
    /\ widget = WidgetLoaded

\* the embed script has run on a host page where the widget's address parses,
\* or on one where it does not
InitWidget ==
    /\ InitPage
    /\ \E urlParses \in BOOLEAN : widget = [WidgetLoaded EXCEPT !.urlParses = urlParses]

\* ------------------------------------------------------------------ tasks

\* a task starts with nothing dispatched and nothing queued
NewTask(s) == [s EXCEPT !.cmEvents = << >>, !.apiEvents = << >>,
                        !.microtasks = << >>, !.ret = ""]

\* the presentation layer calls chatManager.sendMessage(content, siteUrl)
SendMessageTask(content, siteUrl) ==
    drain(sendMessage([Cur EXCEPT !.sends = @ + 1], content, siteUrl))

\* the connection of the latest EventSource opens
OnOpenTask == drain(onopen(Cur))

\* a frame arrives on the open EventSource
OnMessageTask(data) ==
    drain(onmessage(
        [Cur EXCEPT !.tokenFrames = IF data.token # NoToken THEN @ + 1 ELSE @],
        data))

\* the connection of the latest EventSource fails
OnErrorTask == drain(onerror(Cur))

\* chatManager.cancel() is called
CancelTask == drain(cancel(Cur))

\* the Escape key
CancelCurrentOperationTask == drain(cancelCurrentOperation(Cur))

\* the window's beforeunload event
CleanupTask == drain(cleanup(Cur))

\* chatManager.clearMessages() is called
ClearMessagesTask == drain(clearMessages(Cur))

\* chatManager.deleteMessage(id) is called
DeleteMessageTask(id) == drain(deleteMessage(Cur, id))

\* a page script calls apiService.streamQuery itself and awaits nothing
StreamQueryTask(question, siteUrl) ==
    drain(streamQuery([Cur EXCEPT !.sends = @ + 1], question, siteUrl, FALSE))

\* a page script calls apiService.startScraping(siteName, baseUrl)
StartScrapingTask(baseUrl) ==
    drain(startScraping([Cur EXCEPT !.sends = @ + 1], baseUrl))

\* a page script calls apiService.checkScrapingStatus(jobId)
CheckScrapingStatusTask ==
    drain(checkScrapingStatus([Cur EXCEPT !.sends = @ + 1]))

\* the fetch of the job call in flight settles
JobSettledTask(outcome) == drain(jobSettled(Cur, outcome))

\* chatManager.importChat(data, merge) is called
ImportChatTask(data, merge) == drain(importChat(Cur, data, merge))

\* ----------------------------------------------------------------- actions

SendMessage ==
    \E content \in Texts, siteUrl \in Urls : Commit(SendMessageTask(content, siteUrl))

EsOpen ==
    /\ es = "connecting"
    /\ Commit(OnOpenTask)

EsMessage ==
    /\ es = "open"
    /\ \E data \in Frames \cup {DONE} : Commit(OnMessageTask(data))

EsError ==
    /\ es \in {"connecting", "open"}
    /\ Commit(OnErrorTask)

Cancel == Commit(CancelTask)

CancelCurrentOperation == Commit(CancelCurrentOperationTask)

ClearMessages == Commit(ClearMessagesTask)

\* beforeunload is dispatched; the page may stay (the navigation is a download,
\* or another listener makes the user cancel it)
Cleanup == Commit(CleanupTask)

DeleteMessage ==
    \E id \in 1..MaxIds : Commit(DeleteMessageTask(id))

StreamQuery ==
    \E question \in Texts, siteUrl \in Urls : Commit(StreamQueryTask(question, siteUrl))

Next ==
    \/ SendMessage
    \/ EsOpen
    \/ EsMessage
    \/ EsError
    \/ Cancel
    \/ CancelCurrentOperation
    \/ ClearMessages
    \/ DeleteMessage
    \/ Cleanup

Spec == Init /\ [][Next]_vars

\* ApiService with any caller: streamQuery called through sendMessage or
\* directly, the events of the stream, and cancellation
NextApi ==
    \/ SendMessage
    \/ StreamQuery
    \/ EsOpen
    \/ EsMessage
    \/ EsError
    \/ Cancel

SpecApi == Init /\ [][NextApi]_vars

ImportChat ==
    \E data \in Documents \cup {exportChat(Cur)}, merge \in BOOLEAN :
        Commit(ImportChatTask(data, merge))

\* the conversation log with import: sessions that run to their end, and
\* importChat of foreign documents and of the log's own export
NextLog ==
    \/ SendMessage
    \/ EsOpen
    \/ EsMessage
    \/ EsError
    \/ ImportChat

SpecLog == Init /\ [][NextLog]_vars

\* a long conversation: a run may create up to MaxLog messages and is not
\* limited in its imports
CommitLong(f) ==
    /\ f.nextId <= MaxLog + 1
    /\ f.deletes <= MaxDeletes
    /\ Update(f)

\* importChat of a document with one message, merged into the log
LongImport ==
    CommitLong(ImportChatTask([kind |-> "array", messages |-> << ForeignMessage >>], TRUE))

\* deleteMessage of any message of the long log
LongDelete ==
    \E id \in 1..MaxLog : CommitLong(DeleteMessageTask(id))

\* a log that grows past what the store retains
NextSave ==
    \/ LongImport
    \/ LongDelete

SpecSave == Init /\ [][NextSave]_vars

StartScraping == \E baseUrl \in Urls : Commit(StartScrapingTask(baseUrl))

CheckScrapingStatus == Commit(CheckScrapingStatusTask)

JobSettled ==
    /\ job \in {"scrape", "status"}
    /\ \E outcome \in FetchOutcomes : Commit(JobSettledTask(outcome))

\* the body of the response to the job call in flight has been read, or the
\* reading fails
BodySettled ==
    /\ job \in {"scrape:body", "status:body"}
    /\ \E outcome \in BodyOutcomes : Commit(drain(bodySettled(Cur, outcome)))

\* App.checkApiHealth at startup, or a page script, calls apiService.healthCheck()
HealthCheck == Commit(drain(healthCheck([Cur EXCEPT !.sends = @ + 1])))

\* the fetch of a health check in flight settles
HealthSettled ==
    /\ health > 0
    /\ \E outcome \in {"ok", "notOk", "error"} :
          Commit(drain(healthSettled(Cur, outcome)))

\* chat sessions on a page that also submits scraping jobs, polls them and
\* checks the health of the API
NextJobs ==
    \/ SendMessage
    \/ EsOpen
    \/ EsMessage
    \/ EsError
    \/ StartScraping
    \/ CheckScrapingStatus
    \/ JobSettled
    \/ BodySettled
    \/ HealthCheck
    \/ HealthSettled

SpecJobs == Init /\ [][NextJobs]_vars

\* localStorage.setItem starts or stops throwing (quota reached, storage
\* disabled, space freed)
StorageChange == Commit([Cur EXCEPT !.storageFails = ~@])

\* sessions over a store that can fail and recover at any time
NextStore ==
    \/ SendMessage
    \/ EsOpen
    \/ EsMessage
    \/ EsError
    \/ StorageChange

SpecStore == Init /\ [][NextStore]_vars

\* the variables of the page that hosts the chat; the embed script runs in
\* another document and touches none of them
pageVars ==
    << messages, isTyping, currentStreamingMessage, streamingObject, persisted,
       hasItem, nextId, abortController, isConnected, es, esCount, hasStarted,
       assistantMessage, promise, response, awaiting, fed, deletes, sends, tokenFrames,
       sessionBase, streamCreated, unclosed, imports, job, health, storageFails >>

SetWidget(w) ==
    /\ Len(w.posted) <= MaxPosted
    /\ widget' = w
    /\ UNCHANGED pageVars

\* the page's load event runs init
WidgetInit ==
    /\ ~widget.loadFired
    /\ SetWidget([init(widget) EXCEPT !.loadFired = TRUE])

\* the host document gets an element with id fin-chat-root from elsewhere
\* (a second copy of the script, or the page's own markup) before the load event
ForeignRoot ==
    /\ ~widget.loadFired
    /\ ~widget.root
    /\ SetWidget([widget EXCEPT !.root = TRUE])

\* a click, Enter or space on the launcher
LauncherToggle ==
    /\ widget.launcher
    /\ SetWidget(toggleChat(widget))

FinChatOpen == SetWidget(finChatOpen(widget))

FinChatClose == SetWidget(finChatClose(widget))

FinChatSend == \E text \in WidgetTexts : SetWidget(finChatSend(widget, text))

FinChatSetTheme == \E theme \in {"dark"} : SetWidget(finChatSetTheme(widget, theme))

\* the embed script on a host page: the load event, the launcher and the
\* public API window.finChat, called at any time
NextWidget ==
    \/ WidgetInit
    \/ ForeignRoot
    \/ LauncherToggle
    \/ FinChatOpen
    \/ FinChatClose
    \/ FinChatSend
    \/ FinChatSetTheme

SpecWidget == InitWidget /\ [][NextWidget]_vars

\* the embed script on a host page that uses the launcher and window.finChat
\* only once init has built the widget
NextWidgetReady ==
    \/ WidgetInit
    \/ widget.launcher /\ LauncherToggle
    \/ widget.launcher /\ FinChatOpen
    \/ widget.launcher /\ FinChatClose
    \/ widget.launcher /\ FinChatSend
    \/ widget.launcher /\ FinChatSetTheme

SpecWidgetReady == InitWidget /\ [][NextWidgetReady]_vars

\* ------------------------------------------------------------------ claims

\* a session is in flight: the latest stream's promise is not settled
Active == promise = "pending"

ValidInput(content, siteUrl) == Trim(content) # << >> /\ isValidUrl(siteUrl)

\* messages of s that are streaming
Streaming(s) == { i \in 1..Len(s.messages) : s.messages[i].isStreaming }

\* positions in the log of s of the assistant messages the latest stream created
SessionAssistant(s) ==
    { i \in 1..Len(s.messages) : s.messages[i].id \in s.streamCreated }

\* nothing created since the latest stream was opened has been removed from the log
SessionIntact ==
    \A id \in (sessionBase + 1)..(nextId - 1) : FindIndex(messages, id) # 0

\* C1: sendMessage called while a session is active always fails with the busy
\* error and leaves the log exactly as it was.
C1_BusySendLeavesLog ==
    [][\A content \in Texts, siteUrl \in Urls :
        (Active /\ ValidInput(content, siteUrl)
                /\ Commit(SendMessageTask(content, siteUrl))) =>
            /\ SendMessageTask(content, siteUrl).ret = "busy"
            /\ messages' = messages]_vars

\* the latest stream's session ends in this step: its promise is settled, or a
\* new stream takes its place
SessionEnds == Active /\ awaiting /\ (promise' # "pending" \/ esCount' # esCount)

\* C2: a session opened by sendMessage ends, whatever its outcome, with exactly
\* one message created after its user message, the terminal assistant or system
\* message, which is then the last message of the log.
C2_ExactlyOneTerminalMessage ==
    [][SessionEnds =>
        /\ nextId' - 1 = sessionBase + 1
        /\ messages' # << >>
        /\ messages'[Len(messages')].id = sessionBase + 1
        /\ messages'[Len(messages')].role \in {"assistant", "system"}]_vars

\* C3: at most one message of the log has isStreaming = true.
C3_AtMostOneStreaming == Cardinality(Streaming(Cur)) <= 1

\* C4: once a stream that delivered token frames t1..tn (n >= 1) has ended with
\* [DONE], the promise carries t1 \o ... \o tn with completed = true and the log
\* holds one assistant message of that session, with that content and
\* isStreaming = false.
C4_TokensAccumulateInOrder ==
    (promise = "resolved" /\ response.completed /\ fed # << >> /\ SessionIntact) =>
        /\ response.content = Concat(fed)
        /\ Cardinality(SessionAssistant(Cur)) = 1
        /\ \A i \in SessionAssistant(Cur) :
            /\ messages[i].content = Concat(fed)
            /\ ~messages[i].isStreaming

\* C5: a connection error after at least one token leaves the session's
\* assistant message with the text accumulated so far and isStreaming = false,
\* and appends no message to the log.
C5_InterruptionKeepsPartialText ==
    [][(es = "open" /\ hasStarted /\ SessionAssistant(Cur) # {}
            /\ Commit(OnErrorTask)) =>
        /\ Len(messages') = Len(messages)
        /\ \A i \in SessionAssistant(Cur) :
            /\ messages'[i].id = messages[i].id
            /\ messages'[i].content = assistantMessage
            /\ ~messages'[i].isStreaming]_vars

\* C6: cancel() during a session closes the transport, appends no message,
\* leaves the in-progress assistant message with isStreaming = false, and the
\* machine is Idle afterwards.
C6_CancelFinalizesWithoutAppending ==
    [][(Active /\ Commit(CancelTask)) =>
        /\ es' = "closed"
        /\ promise' = "rejected"
        /\ Len(messages') = Len(messages)
        /\ \A i \in 1..Len(messages) :
            messages[i].id = currentStreamingMessage => ~messages'[i].isStreaming
        /\ ~isTyping'
        /\ currentStreamingMessage' = 0]_vars

\* what a caller can observe of the log, the flags, the transport and the promise
Observable(s) ==
    << s.messages, s.persisted, s.isTyping, s.currentStreamingMessage,
       s.abortController, s.es, s.promise, s.response, s.awaiting,
       s.hasStarted, s.assistantMessage, s.isConnected, s.nextId >>

\* C7: from any state, cancel() twice in succession (in one task, or in two
\* tasks) leaves the log, the flags, the transport and the promise as one
\* cancel() does; the second call dispatches nothing and settles nothing.
C7_CancelIdempotent ==
    LET once == CancelTask
        second == cancel(NewTask(once))
    IN /\ Observable(drain(second)) = Observable(once)
       /\ Observable(drain(cancel(cancel(Cur)))) = Observable(once)
       /\ second.microtasks = << >>
       /\ second.apiEvents = << >>
       /\ second.cmEvents = << >>

\* cancel() has acted on a session in flight
C7_Witness ==
    /\ promise = "rejected"
    /\ response.error = MSG_CANCELLED
    /\ abortController = "null"
    /\ messages # << >>

\* C8: cancel() while Idle changes neither the log nor isTyping nor
\* currentStreamingMessage, and ChatManager emits no event.
C8_IdleCancelIsNoOp ==
    [][(~Active /\ Commit(CancelTask)) =>
        /\ messages' = messages
        /\ isTyping' = isTyping
        /\ currentStreamingMessage' = currentStreamingMessage
        /\ CancelTask.cmEvents = << >>]_vars

\* cancel() has acted after a session ended by itself
C8_Witness ==
    /\ promise = "resolved"
    /\ abortController = "null"
    /\ messages # << >>

\* C9: a sendMessage call rejected for its input (empty text, invalid siteUrl)
\* leaves the log exactly as it was.
C9_InvalidSendLeavesLog ==
    [][\A content \in Texts, siteUrl \in Urls :
        (Commit(SendMessageTask(content, siteUrl))
            /\ SendMessageTask(content, siteUrl).ret \in {"empty", "invalidUrl"}) =>
            messages' = messages]_vars

\* C10: streamQuery called with an empty question or an invalid siteUrl,
\* directly or through sendMessage, fails with the validation error,
\* constructs no EventSource and leaves the transport that is open, its
\* controller and its promise as they were.
C10_InvalidQueryOpensNothing ==
    [][\A question \in Texts, siteUrl \in Urls :
        (~ValidInput(question, siteUrl)
            /\ \/ Commit(StreamQueryTask(question, siteUrl))
               \/ /\ Commit(SendMessageTask(question, siteUrl))
                  /\ SendMessageTask(question, siteUrl).ret = "invalidUrl") =>
            /\ StreamQueryTask(question, siteUrl).ret \in {"emptyQuestion", "invalidUrl"}
            /\ esCount' = esCount
            /\ es' = es
            /\ promise' = promise
            /\ response' = response
            /\ abortController' = abortController]_vars

\* streamQuery has rejected an empty question while a transport is open
C10_Witness ==
    /\ es = "open"
    /\ promise = "pending"
    /\ messages # << >>
    /\ messages[Len(messages)].content = << "Error: " >> \o ERROR_MESSAGES.EMPTY_MESSAGE

\* C11: at most one EventSource constructed by the ApiService is un-closed, and
\* while one is un-closed it is the latest one, the one the controller in
\* abortController aborts: a stream that is replaced has been closed.
C11_AtMostOneOpenTransport ==
    /\ unclosed <= 1
    /\ unclosed = 1 <=> es \in {"connecting", "open"}
    /\ es \in {"connecting", "open"} => abortController = "stream"

\* a stream was opened while the previous one was still pending, which was
\* cancelled for it
C11_Witness ==
    /\ esCount = 2
    /\ es = "connecting"
    /\ unclosed = 1
    /\ messages # << >>
    /\ messages[Len(messages)].content = << "Error: " >> \o MSG_CANCELLED

\* C12: a connection error on a stream rejects the completion with the network
\* error if and only if no token frame was received on that stream; after at
\* least one token frame it resolves with completed = false and the text of
\* the token frames received, in order.
C12_ErrorOutcomeByTokens ==
    [][(es \in {"connecting", "open"} /\ Commit(OnErrorTask)) =>
        IF fed = << >>
        THEN /\ promise' = "rejected"
             /\ response'.error = ERROR_MESSAGES.NETWORK_ERROR
        ELSE /\ promise' = "resolved"
             /\ ~response'.completed
             /\ response'.content = Concat(fed)]_vars

\* the tasks the event loop can run in the current state, under SpecApi
ApiTasks ==
    { SendMessageTask(content, siteUrl) : content \in Texts, siteUrl \in Urls }
    \cup { StreamQueryTask(question, siteUrl) : question \in Texts, siteUrl \in Urls }
    \cup { CancelTask }
    \cup (IF es = "connecting" THEN { OnOpenTask } ELSE {})
    \cup (IF es \in {"connecting", "open"} THEN { OnErrorTask } ELSE {})
    \cup (IF es = "open" THEN { OnMessageTask(data) : data \in Frames \cup {DONE} } ELSE {})

\* the stream's terminal outcome, once its promise is settled
Outcome ==
    IF promise = "resolved"
    THEN (IF response.completed THEN "completed" ELSE "interrupted")
    ELSE IF promise = "rejected" /\ response.error = ERROR_MESSAGES.NETWORK_ERROR
    THEN "failed"
    ELSE IF promise = "rejected" /\ response.error = MSG_CANCELLED
    THEN "cancelled"
    ELSE "none"

\* C13: a stream terminates at most once, with one of completed, interrupted,
\* failed, cancelled, and is closed by then; afterwards, until another stream
\* is opened, its completion is not settled again, it processes no frame, and
\* no step dispatches a start, token or metadata event.
C13_StreamTerminatesOnce ==
    [][(promise \in {"resolved", "rejected"} /\ esCount' = esCount) =>
        /\ Outcome \in {"completed", "interrupted", "failed", "cancelled"}
        /\ es = "closed"
        /\ es' = "closed"
        /\ promise' = promise
        /\ response' = response
        /\ hasStarted' = hasStarted
        /\ assistantMessage' = assistantMessage
        /\ fed' = fed
        /\ \A task \in ApiTasks :
             Commit(task) =>
                \A i \in 1..Len(task.apiEvents) :
                    task.apiEvents[i] # EVENTS.MESSAGE_RECEIVED]_vars

\* cancel() was called after a stream had ended as interrupted
C13_Witness ==
    /\ promise = "resolved"
    /\ ~response.completed
    /\ assistantMessage # << >>
    /\ es = "closed"
    /\ abortController = "null"

\* a valid question and site, as the page would send them
AQuestion == << " ", "q", " " >>
ASite == [scheme |-> "https", host |-> "example.com"]

\* C14: when a session opened by sendMessage ends (completed, interrupted,
\* failed or cancelled), then once its continuation has run
\* currentStreamingMessage is null and isTyping is false; and in every state
\* whose latest stream has ended they are still so, and sendMessage with valid
\* input is accepted: it opens a stream.
C14_TerminalReturnsToIdle ==
    /\ [][SessionEnds => (currentStreamingMessage' = 0 /\ ~isTyping')]_vars
    /\ [](promise \in {"resolved", "rejected"} =>
            /\ currentStreamingMessage = 0
            /\ ~isTyping
            /\ ValidInput(AQuestion, ASite)
            /\ sendMessage(Cur, AQuestion, ASite).ret = "opened")

\* a session completed, its assistant message was finalized, and the next
\* sendMessage opened a stream
C14_Witness ==
    /\ esCount = 2
    /\ es = "connecting"
    /\ awaiting
    /\ Len(messages) >= 3
    /\ messages[Len(messages)].role = "user"
    /\ messages[Len(messages) - 1].role = "assistant"
    /\ messages[Len(messages) - 1].completed = "true"

\* C15: when the stream of a session fails before any token frame, exactly one
\* system message with the network error is appended, the session has no
\* assistant message, the error is published on the error topic, and the log
\* is persisted.
C15_FailureAppendsOneError ==
    [][(Active /\ awaiting /\ fed = << >> /\ SessionIntact /\ Commit(OnErrorTask)) =>
        /\ Len(messages') = Len(messages) + 1
        /\ SubSeq(messages', 1, Len(messages)) = messages
        /\ messages'[Len(messages')].role = "system"
        /\ messages'[Len(messages')].content = << "Error: " >> \o ERROR_MESSAGES.NETWORK_ERROR
        /\ \A i \in 1..Len(messages') :
             messages'[i].id > sessionBase => messages'[i].role # "assistant"
        /\ \E i \in 1..Len(OnErrorTask.apiEvents) : OnErrorTask.apiEvents[i] = EVENTS.ERROR
        /\ persisted' = messages']_vars

\* C16: while a session is streaming, deleteMessage(id of the message being
\* streamed) leaves that message in the log.
C16_DeleteSparesStreamingMessage ==
    [][\A id \in 1..MaxIds :
        (Active /\ hasStarted /\ id = currentStreamingMessage
                /\ FindIndex(messages, id) # 0
                /\ Commit(DeleteMessageTask(id))) =>
            FindIndex(messages', id) # 0]_vars

\* the log without the messages whose id is id
Without(q, id) == SelectSeq(q, LAMBDA m : m.id # id)

\* C17: in every state, deleteMessage(id) for an id not in the log returns
\* false, changes neither the log nor what is persisted and emits nothing; for
\* an id in the log it returns true and the log is the old one without that
\* one message, the others in their order, and that log is persisted.
C17_DeleteRemovesExactlyOne ==
    \A id \in 1..MaxIds :
        LET r == DeleteMessageTask(id) IN
        IF \A i \in 1..Len(messages) : messages[i].id # id
        THEN /\ r.ret = "false"
             /\ r.messages = messages
             /\ r.persisted = persisted
             /\ r.cmEvents = << >>
        ELSE /\ r.ret = "true"
             /\ r.messages = Without(messages, id)
             /\ Len(r.messages) = Len(messages) - 1
             /\ r.persisted = r.messages
             /\ r.cmEvents = << "message:deleted" >>

\* the second of three messages was deleted
C17_Witness ==
    /\ deletes = 1
    /\ Len(messages) >= 2
    /\ messages[1].id = 1
    /\ messages[2].id = 3

\* C18: clearMessages empties the log, persists the empty log, and leaves no
\* active session: isTyping false, currentStreamingMessage null, the stream
\* closed and its completion settled, also when called during a session.
C18_ClearForcesIdle ==
    [][Commit(ClearMessagesTask) =>
        /\ messages' = << >>
        /\ persisted' = << >>
        /\ ~isTyping'
        /\ currentStreamingMessage' = 0
        /\ promise' # "pending"
        /\ es' \notin {"connecting", "open"}]_vars

\* a document importChat is to accept: an object whose messages is an array of
\* message objects that have a role and a content
WellFormed(d) ==
    /\ d.kind = "array"
    /\ \A i \in 1..Len(d.messages) :
         /\ d.messages[i].kind = "message"
         /\ d.messages[i].role \in {"user", "assistant", "system"}
         /\ d.messages[i].content # << >>

\* C19: in every state, importChat of a document that is not well formed,
\* with merge or without, returns false and leaves the log and what is
\* persisted as they were.
C19_ImportAllOrNothing ==
    \A data \in Documents, merge \in BOOLEAN :
        ~WellFormed(data) =>
            LET r == ImportChatTask(data, merge) IN
            /\ r.ret = "false"
            /\ r.messages = messages
            /\ r.persisted = persisted

\* C20: in every state, the export of the log imported without merge into an
\* empty conversation gives a log of the same length whose messages have, in
\* order, the ids, roles and contents of the exported ones.
C20_ExportImportRoundTrip ==
    LET r == drain(importChat(clearMessages(Cur), exportChat(Cur), FALSE)) IN
    /\ r.ret = "true"
    /\ Len(r.messages) = Len(messages)
    /\ \A i \in 1..Len(messages) :
         /\ r.messages[i].id = messages[i].id
         /\ r.messages[i].role = messages[i].role
         /\ r.messages[i].content = messages[i].content

\* what ApiService and ChatManager hold, and the log, in state s
Whole(s) ==
    << Observable(s), s.streamingObject, s.hasItem, s.fed, s.esCount, s.unclosed >>

MalformedFrame == [kind |-> "malformed", token |-> NoToken, chunks |-> "absent"]

\* C22: in every state with an open stream, a frame that is not JSON settles
\* nothing, closes nothing, dispatches no event and leaves the accumulated
\* text and the log as they are; any frame after it has the effect it would
\* have had without it.
C22_MalformedFrameSkipped ==
    es = "open" =>
        LET r == OnMessageTask(MalformedFrame) IN
        /\ r.ret = "malformed"
        /\ r.apiEvents = << >>
        /\ r.cmEvents = << >>
        /\ Whole(r) = Whole(Cur)
        /\ \A data \in Frames \cup {DONE} :
             LET after == drain(onmessage(NewTask(r), data))
                 alone == drain(onmessage(Cur, data))
             IN /\ Whole(after) = Whole(alone)
                /\ after.apiEvents = alone.apiEvents
                /\ after.cmEvents = alone.cmEvents

\* a stream in the middle of its answer, where a frame that is not JSON can
\* arrive; skipped, it leaves no trace, so this is also the state after it
C22_Witness ==
    /\ es = "open"
    /\ promise = "pending"
    /\ hasStarted
    /\ Len(assistantMessage) = 1
    /\ currentStreamingMessage # 0
    /\ ContentOf(Cur, currentStreamingMessage) = assistantMessage

\* values of a frame's chunks field
ChunkValues == {"c1", "c2"}

\* C23: in every state with an open stream, a frame with chunks and no token
\* dispatches one metadata event, leaves the accumulated text and the
\* transport as they are, and changes the log only in the metadata of the
\* message currentStreamingMessage refers to, which becomes the event's detail
\* with the chunks, whatever it was.
C23_ChunksSetMetadataOnly ==
    es = "open" =>
        \A c \in ChunkValues :
            LET r == OnMessageTask([kind |-> "json", token |-> NoToken, chunks |-> c]) IN
            /\ r.apiEvents = << EVENTS.MESSAGE_RECEIVED >>
            /\ r.assistantMessage = assistantMessage
            /\ r.hasStarted = hasStarted
            /\ r.es = es
            /\ r.promise = promise
            /\ r.currentStreamingMessage = currentStreamingMessage
            /\ Len(r.messages) = Len(messages)
            /\ \A i \in 1..Len(messages) :
                 r.messages[i] =
                    IF messages[i].id = currentStreamingMessage
                    THEN [messages[i] EXCEPT !.metadata =
                            [type |-> "metadata", chunks |-> c, isStreaming |-> TRUE]]
                    ELSE messages[i]

\* the message being streamed has received chunks, and more can arrive
C23_Witness ==
    /\ es = "open"
    /\ currentStreamingMessage # 0
    /\ \E i \in 1..Len(messages) :
         /\ messages[i].id = currentStreamingMessage
         /\ messages[i].isStreaming
         /\ messages[i].metadata # NullValue
         /\ messages[i].metadata.chunks = "c1"

\* C25: in every state where a session is active and sendMessage is refused
\* as busy, sendMessage is still refused after cancel() has returned, as long
\* as the continuation that processes the cancelled session's outcome has not
\* run.
C25_IdleOnlyAfterOutcomeProcessed ==
    (Active /\ awaiting /\ isTyping) =>
        LET c == cancel(Cur) IN
        c.microtasks # << >> => sendMessage(c, AQuestion, ASite).ret = "busy"

\* a is a prefix of b
IsPrefix(a, b) == Len(a) <= Len(b) /\ SubSeq(b, 1, Len(a)) = a

\* C30: in every step, a streaming assistant message that stays in the log
\* keeps its content as a prefix of its new content, and its content changes
\* only in a step that delivers a token frame of the stream that created the
\* message, by that token appended.
C30_StreamingContentGrows ==
    [][\A i \in 1..Len(messages) :
        (messages[i].role = "assistant" /\ messages[i].isStreaming) =>
            \A j \in 1..Len(messages') :
                messages'[j].id = messages[i].id =>
                    /\ IsPrefix(messages[i].content, messages'[j].content)
                    /\ messages'[j].content # messages[i].content =>
                          /\ es = "open"
                          /\ messages[i].id > sessionBase
                          /\ \E data \in Frames :
                               /\ data.token \notin {NoToken, << >>}
                               /\ Commit(OnMessageTask(data))
                               /\ messages'[j].content =
                                     messages[i].content \o data.token]_vars

\* a streaming message has grown by a second token
C30_Witness ==
    \E i \in 1..Len(messages) :
        /\ messages[i].role = "assistant"
        /\ messages[i].isStreaming
        /\ messages[i].id = currentStreamingMessage
        /\ Len(messages[i].content) = 2
        /\ messages[i].content = assistantMessage

\* C29: after finChat.open() returns the widget is open, after finChat.close()
\* returns it is closed, whenever the call is made; neither call throws; open on
\* an open widget and close on a closed widget change nothing
WidgetOpen(w) == w.isOpen /\ w.visible /\ w.ariaExpanded = "true"

WidgetClosed(w) == ~w.isOpen /\ ~w.visible /\ w.ariaExpanded # "true"

C29_OpenOpensCloseCloses ==
    LET o == finChatOpen(widget)
        c == finChatClose(widget)
    IN  /\ o.ret = "ok" /\ WidgetOpen(o)
        /\ c.ret = "ok" /\ WidgetClosed(c)
        /\ WidgetOpen(widget) => o = [widget EXCEPT !.ret = "ok"]
        /\ WidgetClosed(widget) => c = [widget EXCEPT !.ret = "ok"]

\* C28: for every format and every state, exportChat changes neither the log,
\* nor isTyping, nor currentStreamingMessage, nor the persisted copy, nor
\* anything else the page holds, and dispatches no event.
C28_ExportIsPure ==
    \A format \in Formats :
        LET r == drain(exportChatCall(Cur, format))
        IN  /\ r.messages = messages
            /\ r.isTyping = isTyping
            /\ r.currentStreamingMessage = currentStreamingMessage
            /\ r.persisted = persisted
            /\ Whole(r) = Whole(Cur)
            /\ r.cmEvents = << >>
            /\ r.apiEvents = << >>

\* exportChat leaves no trace; the witness is a state where a change would
\* show: a session is streaming and the log holds a message that arrived by
\* import
C28_Witness ==
    /\ isTyping
    /\ currentStreamingMessage # 0
    /\ Streaming(Cur) # {}
    /\ \E i \in 1..Len(messages) : messages[i].content = << "h" >>
    /\ exportChatCall(Cur, "text").ret.messages # << >>

\* C27: a ChatManager constructed after a save starts with exactly the saved
\* messages, in the same order, every timestamp reparsed to the same instant
\* and every other field equal.
C27_SaveLoadRoundTrip == constructor(Cur).messages = persisted

\* C26: a save that fails is swallowed: send, a frame, the end or failure of
\* the stream, cancel, delete, clear, cleanup and import each finish with the same log,
\* the same session state, the same events and the same result as when the save
\* succeeds; only the stored copy differs.
SameButStore(a, b) ==
    [a EXCEPT !.persisted = b.persisted, !.hasItem = b.hasItem,
              !.storageFails = b.storageFails] = b

C26_SaveFailureSwallowed ==
    LET ok == [Cur EXCEPT !.storageFails = FALSE]
        ko == [Cur EXCEPT !.storageFails = TRUE]
    IN  /\ \A content \in Texts, siteUrl \in Urls :
              SameButStore(drain(sendMessage(ko, content, siteUrl)),
                           drain(sendMessage(ok, content, siteUrl)))
        /\ es = "open" =>
              \A data \in Frames \cup {DONE} :
                  SameButStore(drain(onmessage(ko, data)), drain(onmessage(ok, data)))
        /\ es \in {"connecting", "open"} =>
              SameButStore(drain(onerror(ko)), drain(onerror(ok)))
        /\ SameButStore(drain(cancel(ko)), drain(cancel(ok)))
        /\ SameButStore(drain(clearMessages(ko)), drain(clearMessages(ok)))
        /\ SameButStore(drain(cleanup(ko)), drain(cleanup(ok)))
        /\ \A id \in 1..MaxIds :
              SameButStore(drain(deleteMessage(ko, id)), drain(deleteMessage(ok, id)))
        /\ \A data \in Documents, merge \in BOOLEAN :
              SameButStore(drain(importChat(ko, data, merge)),
                           drain(importChat(ok, data, merge)))

\* the store failed while a token update changed the log: the stored copy is
\* behind the log, and the session goes on
C26_Witness ==
    /\ storageFails
    /\ isTyping
    /\ currentStreamingMessage # 0
    /\ persisted # SliceLast(messages, RETAIN)
    /\ \E i \in 1..Len(messages) : messages[i].role = "assistant" /\ messages[i].content # << >>

\* C21: after any save the stored log holds at most 100 messages, and they are
\* the most recent min(100, n) messages of the log of n messages, in the
\* log's order.
C21_PersistedIsLastHundred ==
    LET n == Len(messages)
        k == IF n < 100 THEN n ELSE 100
    IN  /\ Len(persisted) <= 100
        /\ Len(persisted) = k
        /\ \A i \in 1..k : persisted[i] = messages[n - k + i]

\* the log is longer than what is retained, after a deletion in the middle
C21_Witness ==
    /\ Len(messages) > 100
    /\ deletes = 1
    /\ Len(persisted) = 100
    /\ persisted[1] # messages[1]

\* C24: startScraping and checkScrapingStatus never change the log: neither
\* the call nor its failure (a response that is not 2xx, a network failure)
\* appends or changes a message, and the failure is dispatched as an error event.
C24_JobCallsLeaveLog ==
    /\ \A baseUrl \in Urls : StartScrapingTask(baseUrl).messages = messages
    /\ CheckScrapingStatusTask.messages = messages
    /\ job \in {"scrape", "status"} =>
          \A outcome \in FetchOutcomes :
              LET r == JobSettledTask(outcome)
              IN  /\ r.messages = messages
                  /\ outcome \in {"notOk", "fetchTypeError", "otherTypeError"} =>
                        \E i \in 1..Len(r.apiEvents) : r.apiEvents[i] = EVENTS.ERROR
    /\ job \in {"scrape:body", "status:body"} =>
          \A outcome \in BodyOutcomes :
              LET r == drain(bodySettled(Cur, outcome))
              IN  /\ r.messages = messages
                  /\ outcome \in {"fetchTypeError", "otherTypeError"} =>
                        \E i \in 1..Len(r.apiEvents) : r.apiEvents[i] = EVENTS.ERROR

\* the ids of the messages of a log, in the log's order
Ids(q) == [i \in 1..Len(q) |-> q[i].id]

IdSet(q) == { q[i].id : i \in 1..Len(q) }

\* C31: in every step, the messages that stay in the log keep their relative
\* order, and every message the step adds comes after all of them.
C31_OrderIsArrivalOrder ==
    [][ /\ SelectSeq(Ids(messages), LAMBDA id : id \in IdSet(messages'))
            = SelectSeq(Ids(messages'), LAMBDA id : id \in IdSet(messages))
        /\ \A i, j \in 1..Len(messages') :
              (messages'[i].id \in IdSet(messages) /\ messages'[j].id \notin IdSet(messages))
                  => i < j ]_vars

\* a log that saw a deletion in its middle, a cancelled session and a new
\* session that streams
C31_Witness ==
    /\ deletes = 1
    /\ Len(messages) >= 3
    /\ messages[1].id + 1 < messages[2].id
    /\ messages[Len(messages)].role = "assistant"
    /\ messages[Len(messages)].isStreaming

\* the results of sendMessage that refuse the message
Refusals == {"empty", "busy", "invalidUrl"}

\* C32: a sendMessage that is refused during a session leaves isTyping and
\* currentStreamingMessage as they were, so that a further sendMessage while
\* the session streams is refused as well.
C32_RefusedSendKeepsSession ==
    \A content \in Texts, siteUrl \in Urls :
        LET r == SendMessageTask(content, siteUrl) IN
        (Active /\ r.ret \in Refusals) =>
            /\ r.isTyping = isTyping
            /\ r.currentStreamingMessage = currentStreamingMessage
            /\ isTyping => drain(sendMessage(NewTask(r), AQuestion, ASite)).ret = "busy"

\* C33: from the moment sendMessage has accepted a message and opened the
\* transport, the connecting window included, until the session's promise is
\* settled, any other sendMessage is refused as busy.
C33_BusyGuardCoversSession ==
    (Active /\ awaiting /\ es \in {"connecting", "open"}) =>
        \A content \in Texts, siteUrl \in Urls :
            ValidInput(content, siteUrl) =>
                SendMessageTask(content, siteUrl).ret = "busy"

\* C34: whenever no transport is open and currentStreamingMessage is null, no
\* message of the log and no message of the stored copy has isStreaming = true.
C34_IdleHasNoStreamingMessage ==
    (es \notin {"connecting", "open"} /\ currentStreamingMessage = 0) =>
        /\ Streaming(Cur) = {}
        /\ \A i \in 1..Len(persisted) : ~persisted[i].isStreaming

\* C35: after clearMessages() during a session, no later event of that session
\* (open, a frame, DONE, error) adds a message to the log, changes one, or sets
\* isTyping to true: the log stays empty.
C35_ClearedSessionStaysSilent ==
    (Active /\ awaiting /\ es \in {"connecting", "open"}) =>
        LET c == NewTask(ClearMessagesTask)
            Silent(r) == r.messages = << >> /\ ~r.isTyping
        IN  /\ c.es = "connecting" => Silent(drain(onopen(c)))
            /\ c.es = "open" =>
                  \A data \in Frames \cup {DONE} : Silent(drain(onmessage(c, data)))
            /\ c.es \in {"connecting", "open"} => Silent(drain(onerror(c)))

\* C36: startScraping or checkScrapingStatus called while a query stream is
\* open leaves the stream's connection open and its promise pending.
C36_JobCallSparesStream ==
    (Active /\ es = "open") =>
        /\ \A baseUrl \in Urls :
              LET r == StartScrapingTask(baseUrl)
              IN  r.es = "open" /\ r.promise = "pending"
        /\ LET r == CheckScrapingStatusTask
           IN  r.es = "open" /\ r.promise = "pending"

\* the last min(100, n) messages of a log of n messages
Recent(q) ==
    LET n == Len(q)
        k == IF n < 100 THEN n ELSE 100
    IN  [i \in 1..k |-> q[n - k + i]]

\* C37: with a working store, after every operation and every event handler
\* the stored messages are the last min(100, n) messages of the log, field for
\* field; the same holds after an import made in any state.
C37_StoreFollowsLog ==
    ~storageFails =>
        /\ persisted = Recent(messages)
        /\ \A data \in Documents, merge \in BOOLEAN :
              LET r == ImportChatTask(data, merge)
              IN  r.persisted = Recent(r.messages)

\* a session has ended: its message is finalized in the log and in the store
C37_Witness ==
    /\ promise = "resolved"
    /\ deletes = 1
    /\ \E i \in 1..Len(persisted) :
          /\ persisted[i].role = "assistant"
          /\ persisted[i].completed = "true"
          /\ ~persisted[i].isStreaming
          /\ persisted[i].metadata # NullValue

\* the typing events ChatManager has dispatched in a task, in order
TypingOf(f) ==
    SelectSeq(f.cmEvents, LAMBDA e : e \in {EVENTS.TYPING_START, EVENTS.TYPING_STOP})

\* the typing events of task f go on alternating from the state the task began
\* in, and isTyping at its end says whether the last event so far was a start
TypingAlternates(f) ==
    LET q == TypingOf(f) IN
    /\ \A i \in 1..Len(q) :
          q[i] = IF isTyping = (i % 2 = 0) THEN EVENTS.TYPING_START
                 ELSE EVENTS.TYPING_STOP
    /\ f.isTyping = IF q = << >> THEN isTyping
                    ELSE q[Len(q)] = EVENTS.TYPING_START

\* C38: the typing events ChatManager dispatches alternate, beginning with a
\* start, and isTyping is true exactly between a start and the next stop,
\* whatever the transport emits: every task continues the alternation from
\* the value of isTyping it finds (false at construction).
C38_TypingEventsAlternate ==
    /\ \A content \in Texts, siteUrl \in Urls :
          TypingAlternates(SendMessageTask(content, siteUrl))
    /\ es = "connecting" => TypingAlternates(OnOpenTask)
    /\ es = "open" =>
          \A data \in Frames \cup {DONE} : TypingAlternates(OnMessageTask(data))
    /\ es \in {"connecting", "open"} => TypingAlternates(OnErrorTask)
    /\ TypingAlternates(CancelTask)
    /\ TypingAlternates(CancelCurrentOperationTask)
    /\ TypingAlternates(ClearMessagesTask)
    /\ TypingAlternates(CleanupTask)
    /\ \A id \in 1..MaxIds : TypingAlternates(DeleteMessageTask(id))

\* typing, and about to be stopped three times in one task: by the transport's
\* TYPING_STOP, by cancel's own setTyping(false) and by the continuation of
\* sendMessage; one typing-stop event is dispatched
C38_Witness ==
    /\ isTyping
    /\ Active
    /\ awaiting
    /\ \E i \in 1..Len(CancelTask.apiEvents) : CancelTask.apiEvents[i] = EVENTS.TYPING_STOP
    /\ TypingOf(CancelTask) = << EVENTS.TYPING_STOP >>
    /\ TypingOf(SendMessageTask(AQuestion, ASite)) = << EVENTS.TYPING_STOP >>

\* C39: across the calls and clicks made after init, the iframe's src has been assigned at
\* most once and exactly when isLoaded, no call or click turns isLoaded from
\* true to false, and isOpen agrees with aria-expanded and with the iframe's
\* visibility.
C39_LazyLoadOnceAndConsistent ==
    widget.launcher =>
        /\ widget.srcAssigned <= 1
        /\ widget.isLoaded <=> widget.srcAssigned = 1
        /\ \A r \in { toggleChat(widget), finChatOpen(widget), finChatClose(widget) }
                   \cup { finChatSend(widget, text) : text \in WidgetTexts } :
              /\ widget.isLoaded => r.isLoaded
              /\ r.srcAssigned <= 1
        /\ widget.isOpen <=> widget.ariaExpanded = "true"
        /\ widget.isOpen <=> widget.visible

====
